---- MODULE Spec2Model ----
\* Model of src/src/testcal/server.py: the CalendarServer (lazy creation of
\* the Google Calendar service, persisted in token.pickle) and the two
\* request handlers handle_list_tools and handle_call_tool.
\*
\* Scheduling.  The handlers are coroutines run by one asyncio event loop.
\* Neither CalendarServer.initialize nor handle_call_tool contains an await
\* on anything that suspends: `await server.initialize()` runs a coroutine
\* whose body is synchronous (pickle.load, flow.run_local_server, pickle.dump,
\* build), and the backend requests end in the synchronous `.execute()`.  A
\* handler that has been started therefore keeps the event loop until it
\* returns or raises; requests delivered meanwhile wait as queued tasks.
\* `running` is the call that holds the loop (0: the loop is free).  The steps
\* of one handler are separate actions so that its I/O is visible one
\* operation at a time, but only the running call takes steps.
EXTENDS Integers, Sequences, FiniteSets, TLC

\* ---------------------------------------------------------------- bounds
NumCalls == 2          \* tool calls delivered during one run of the process
MaxEvents == 1         \* events in one reply of the backend list operation
MaxAttendees == 2      \* attendees of a create-event call made on its own
MaxListed == 2         \* events in one reply to a search-events call made on its own

Calls == 1..NumCalls

VARIABLES
    service,      \* CalendarServer.service (id 0: None)
    tokenFile,    \* the file token.pickle
    running,      \* the call whose handler holds the event loop, 0 if none
    calls,        \* per call: position, name, arguments, local creds, outcome
    trace,        \* per call: history of what the call did
    io,           \* how often each credential operation has been executed
    toolsReply    \* the list returned by the first handle_list_tools call

vars == <<service, tokenFile, running, calls, trace, io, toolsReply>>

\* ------------------------------------------------------- values and inputs
NoService == [id |-> 0, cred |-> 0]

NoCreds == 0           \* creds = None
PersistedId == 1       \* the credential found in token.pickle at start-up

Absent == [kind |-> "absent", id |-> 0, refresh |-> FALSE, expired |-> FALSE]
Corrupt == [kind |-> "corrupt", id |-> 0, refresh |-> FALSE, expired |-> FALSE]
Pickled(i, r, e) == [kind |-> "creds", id |-> i, refresh |-> r, expired |-> e]

NoError == [origin |-> "none", cause |-> <<>>, by |-> 0]
Raised(o, cs, c) == [origin |-> o, cause |-> cs, by |-> c]

NoResult == [content |-> <<>>, error |-> NoError]

CreateKeys == ("summary" :> "Standup") @@ ("start_time" :> "2024-12-04T10:00:00Z")
              @@ ("end_time" :> "2024-12-04T11:00:00Z")
SearchKeys == ("time_min" :> "2024-12-04T00:00:00Z")
              @@ ("time_max" :> "2024-12-04T23:59:59Z")

\* arguments: dict | None
NoneArguments == [none |-> TRUE, items |-> <<>>]
Dict(d) == [none |-> FALSE, items |-> d]

FullArguments ==
    Dict(CreateKeys @@ SearchKeys @@ ("attendees" :> <<"a@x.com", "b@y.com">>))
OptionalOnly == Dict(("query" :> "lunch") @@ ("description" :> "weekly"))

\* the (name, arguments) pairs the transport delivers; "delete-event" is a
\* name no branch of handle_call_tool knows
Request(n, a) == [name |-> n, arguments |-> a]

Requests ==
    { Request("create-event", NoneArguments),
      Request("search-events", Dict(<<>>)),
      Request("delete-event", NoneArguments),
      Request("create-event", FullArguments),
      Request("search-events", FullArguments),
      Request("delete-event", FullArguments),
      Request("create-event", OptionalOnly) }

\* the requests of the runs that also ask for the list of tools
ToolsRequests ==
    { Request("create-event", FullArguments),
      Request("search-events", Dict(<<>>)),
      Request("delete-event", FullArguments) }

\* dict.get(key, default)
Get(d, key, default) == IF key \in DOMAIN d THEN d[key] ELSE default

TitledEvent == ("summary" :> "Lunch") @@ ("start" :> [dateTime |-> "2024-12-04T12:00:00Z"])
               @@ ("end" :> [dateTime |-> "2024-12-04T13:00:00Z"])
AllDayEvent == ("start" :> [date |-> "2024-12-05"]) @@ ("end" :> [date |-> "2024-12-06"])
SampleEvents == {TitledEvent, AllDayEvent}

SeqsUpTo(S, n) == UNION {[1..k -> S] : k \in 0..n}
ListReplies == SeqsUpTo(SampleEvents, MaxEvents)

BackendFailures == {"HttpError 403", "ServerNotFoundError"}

\* the requests of a run with a single call: create-event with every list of
\* attendees, with one required key missing, and search-events likewise
Emails == {"a@x.com", "b@y.com"}

Without(d, k) == [x \in DOMAIN d \ {k} |-> d[x]]

SingleRequests ==
    {Request("create-event", Dict(CreateKeys))}
    \cup {Request("create-event", Dict(CreateKeys @@ ("attendees" :> as))) :
            as \in SeqsUpTo(Emails, MaxAttendees)}
    \cup {Request("create-event", Dict(Without(CreateKeys, k))) : k \in DOMAIN CreateKeys}
    \cup {Request("search-events", Dict(SearchKeys)),
          Request("search-events", Dict(SearchKeys @@ ("query" :> "lunch")))}
    \cup {Request("search-events", Dict(Without(SearchKeys, k) @@ ("query" :> "lunch"))) :
            k \in DOMAIN SearchKeys}

LongReplies == SeqsUpTo(SampleEvents, MaxListed)

\* ------------------------------------------------------- handle_list_tools
Tool(n, req) == [name |-> n, required |-> req]

ToolsSwapped ==
    << Tool("search-events", <<"time_min", "time_max">>),
       Tool("create-event", <<"summary", "start_time", "end_time">>) >>

Tools ==
    << Tool("create-event", <<"summary", "start_time", "end_time">>),
       Tool("search-events", <<"time_min", "time_max">>) >>

\* ------------------------------------------------------------------ Init
NewCall == [pc |-> "idle", name |-> "", arguments |-> NoneArguments,
            creds |-> NoCreds, result |-> NoResult]

NewTrace == [initRun |-> "no", handle |-> 0, flows |-> 0, attempts |-> 0,
             sent |-> <<>>, reply |-> "", items |-> <<>>, waitedFor |-> 0,
             coldQueued |-> FALSE]

Init ==
    /\ service = NoService
    /\ tokenFile \in {Absent, Corrupt}
                     \cup {Pickled(PersistedId, r, e) : r \in BOOLEAN, e \in BOOLEAN}
    /\ running = 0
    /\ calls = [c \in Calls |-> NewCall]
    /\ trace = [c \in Calls |-> NewTrace]
    /\ io = [loads |-> 0, flows |-> 0, writes |-> 0, builds |-> 0]
    /\ toolsReply = <<>>

\* ------------------------------------------------------------ predicates
\* truthiness of the service attribute: `if self.service` (line 41) and
\* `if not server.service` (line 139)
ServiceReadyNever(s) == FALSE

ServiceReady(s) == s.id # 0

\* `not creds or not creds.valid` (line 56) for the object read from the file
NeedsFlow(f) == f.kind = "absent" \/ f.expired

\* `not arguments` (line 143): None or an empty dict
NotArguments(a) == a.none \/ DOMAIN a.items = {}

\* the branch the if / elif chain of lines 148-217 takes
RouteAnyToSearch(n) == IF n = "create-event" THEN "create-event" ELSE "search-events"

Route(n) ==
    IF n = "create-event" THEN "create-event"
    ELSE IF n = "search-events" THEN "search-events"
    ELSE "unknown"

\* what the object in token.pickle looks like to the code that loads it
CredStatus(f) ==
    IF f.kind # "creds" THEN f.kind
    ELSE IF ~f.expired THEN "valid"
    ELSE IF f.refresh THEN "expired_refreshable"
    ELSE "expired_unrefreshable"

\* --------------------------------------------------- requests and replies
\* the first key of ks (in evaluation order) that the dict lacks, "" if none
RECURSIVE FirstMissing(_, _)
FirstMissing(d, ks) ==
    IF ks = <<>> THEN ""
    ELSE IF Head(ks) \notin DOMAIN d THEN Head(ks)
    ELSE FirstMissing(d, Tail(ks))

\* the event dict of lines 150-158
EventBodyKeyOnly(d) ==
    LET base == ("summary" :> d["summary"])
                @@ ("description" :> Get(d, "description", ""))
                @@ ("start" :> [dateTime |-> d["start_time"]])
                @@ ("end" :> [dateTime |-> d["end_time"]])
    IN IF "attendees" \in DOMAIN d
       THEN base @@ ("attendees" :>
                       [i \in 1..Len(d["attendees"]) |-> [email |-> d["attendees"][i]]])
       ELSE base

EventBody(d) ==
    LET base == ("summary" :> d["summary"])
                @@ ("description" :> Get(d, "description", ""))
                @@ ("start" :> [dateTime |-> d["start_time"]])
                @@ ("end" :> [dateTime |-> d["end_time"]])
    IN IF "attendees" \in DOMAIN d /\ d["attendees"] # <<>>
       THEN base @@ ("attendees" :>
                       [i \in 1..Len(d["attendees"]) |-> [email |-> d["attendees"][i]]])
       ELSE base

InsertRequest(d) ==
    [op |-> "insert", calendarId |-> "primary", body |-> EventBody(d),
     sendUpdates |-> "all"]

ListRequest(d) ==
    [op |-> "list", calendarId |-> "primary", timeMin |-> d["time_min"],
     timeMax |-> d["time_max"], q |-> Get(d, "query", ""), maxResults |-> 10,
     singleEvents |-> TRUE, orderBy |-> "startTime"]

\* str(n) for a natural number, as its sequence of digits
Digit(n) == <<"0", "1", "2", "3", "4", "5", "6", "7", "8", "9">>[n + 1]

RECURSIVE Str(_)
Str(n) == IF n < 10 THEN <<Digit(n)>> ELSE Str(n \div 10) \o <<Digit(n % 10)>>

TextContent(t) == [type |-> "text", text |-> t]

\* the f-string of lines 170-173; a text is the sequence of its pieces
CreatedText(ev) ==
    <<"Created event: ", ev["summary"], "\nStart: ", ev["start"].dateTime,
      "\nEnd: ", ev["end"].dateTime, "\nID: ", ev["id"]>>

\* event['start'].get('dateTime', event['start'].get('date'))
When(t) ==
    IF "dateTime" \in DOMAIN t THEN t.dateTime
    ELSE IF "date" \in DOMAIN t THEN t.date
    ELSE "None"

\* one element of event_list (lines 199-203)
EntryBlankTitle(ev) ==
    <<"- ", Get(ev, "summary", ""), "\n  Start: ", When(ev["start"]),
      "\n  End: ", When(ev["end"])>>

Entry(ev) ==
    <<"- ", Get(ev, "summary", "Untitled"), "\n  Start: ", When(ev["start"]),
      "\n  End: ", When(ev["end"])>>

\* "\n\n".join(event_list)
RECURSIVE Join(_)
Join(es) ==
    IF es = <<>> THEN <<>>
    ELSE IF Len(es) = 1 THEN Entry(es[1])
    ELSE Entry(es[1]) \o <<"\n\n">> \o Join(Tail(es))

\* lines 192-210
SearchResult(events) ==
    IF events = <<>> THEN <<TextContent(<<"No events found">>)>>
    ELSE <<TextContent(<<"Found ">> \o Str(Len(events)) \o <<" events:\n\n">>
                       \o Join(events))>>

\* lines 166-175
CreateResult(created) == <<TextContent(CreatedText(created))>>

\* ------------------------------------------------------ outcome of a call
Returned(blocks) == [content |-> blocks, error |-> NoError]
Failed(e) == [content |-> <<>>, error |-> e]

\* the handler of call c returns or raises: the event loop is free again
Finish(c, res) ==
    /\ calls' = [calls EXCEPT ![c] = [@ EXCEPT !.pc = "done", !.result = res]]
    /\ running' = 0

\* except Exception of lines 212-214 for a failure f of .execute()
OnBackendFailureSwallowed(c, f) == Returned(<<TextContent(<<"No events found">>)>>)

OnBackendFailure(c, f) == Failed(Raised("execution", <<f>>, c))

\* ----------------------------------------------------------------- steps
Me(c) == running = c

SetPc(c, p) == calls' = [calls EXCEPT ![c].pc = p]

\* The transport delivers a tools/call request: the call is queued as a task.
\* Calls are numbered in the order of their arrival.
Submit(c, n, a) ==
    /\ calls[c].pc = "idle"
    /\ IF c = 1 THEN TRUE ELSE calls[c - 1].pc # "idle"
    /\ calls' = [calls EXCEPT ![c] = [@ EXCEPT !.pc = "queued", !.name = n,
                                                !.arguments = a]]
    /\ trace' = [trace EXCEPT ![c].coldQueued =
                     /\ ~ServiceReady(service)
                     /\ \A d \in Calls : calls[d].pc # "done"
                     /\ CredStatus(tokenFile) \in
                            {"absent", "expired_refreshable", "expired_unrefreshable"}]
    /\ UNCHANGED <<service, tokenFile, running, io, toolsReply>>

\* The event loop is free and starts the handler of the oldest queued call
\* (ready tasks run in the order in which they were scheduled); lines 137-141.
StartAwaitsFirstInit(c) ==
    /\ running = 0
    /\ \A d \in 1..(c - 1) : calls[d].pc = "done" /\ trace[d].initRun # "failed"
    /\ calls[c].pc = "queued"
    /\ running' = c
    /\ IF ~ServiceReady(service)
       THEN /\ SetPc(c, "initialize")
            /\ UNCHANGED trace
       ELSE /\ SetPc(c, "arguments")
            /\ trace' = [trace EXCEPT ![c].handle = service.id]
    /\ UNCHANGED <<service, tokenFile, io, toolsReply>>

Start(c) ==
    /\ running = 0
    /\ \A d \in 1..(c - 1) : calls[d].pc = "done"
    /\ calls[c].pc = "queued"
    /\ running' = c
    /\ IF ~ServiceReady(service)
       THEN /\ SetPc(c, "initialize")
            /\ UNCHANGED trace
       ELSE /\ SetPc(c, "arguments")
            /\ trace' = [trace EXCEPT ![c].handle = service.id]
    /\ UNCHANGED <<service, tokenFile, io, toolsReply>>

\* initialize raises (lines 65-67) and handle_call_tool, which calls it
\* outside its try block (line 141), lets the exception through.  tr is the
\* trace of the call after the failing operation.  The calls queued at that
\* moment are the ones that were waiting for this attempt.
InitRaiseSwallowed(c, cause, tr) ==
    /\ calls' = [calls EXCEPT ![c].pc = "arguments"]
    /\ trace' = [trace EXCEPT ![c] = [tr EXCEPT !.initRun = "failed"]]
    /\ running' = c

InitRaise(c, cause, tr) ==
    LET e == Raised("initialize", <<cause>>, c) IN
    /\ Finish(c, Failed(e))
    /\ trace' = [d \in Calls |->
                   IF d = c THEN [tr EXCEPT !.initRun = "failed"]
                   ELSE IF calls[d].pc = "queued" /\ trace[d].waitedFor = 0
                        THEN [trace[d] EXCEPT !.waitedFor = c]
                        ELSE trace[d]]

\* initialize, lines 39-56: the early return, the load of token.pickle and
\* the test that decides whether the authorization flow is needed.
Initialize(c) ==
    /\ Me(c)
    /\ calls[c].pc = "initialize"
    /\ UNCHANGED <<service, tokenFile, toolsReply>>
    /\ LET tr == [trace[c] EXCEPT !.attempts = @ + 1, !.initRun = "running"]
       IN
       IF ServiceReady(service)
       THEN /\ SetPc(c, "arguments")
            /\ trace' = [trace EXCEPT ![c].handle = service.id]
            /\ UNCHANGED <<running, io>>
       ELSE IF tokenFile.kind = "absent"
       THEN /\ SetPc(c, "flow")
            /\ trace' = [trace EXCEPT ![c] = tr]
            /\ UNCHANGED <<running, io>>
       ELSE IF tokenFile.kind = "corrupt"
       THEN /\ io' = [io EXCEPT !.loads = @ + 1]
            /\ InitRaise(c, "pickle.load", tr)
       ELSE /\ io' = [io EXCEPT !.loads = @ + 1]
            /\ trace' = [trace EXCEPT ![c] = tr]
            /\ UNCHANGED running
            /\ IF NeedsFlow(tokenFile)
               THEN SetPc(c, "flow")
               ELSE calls' = [calls EXCEPT ![c] = [@ EXCEPT !.pc = "build",
                                                           !.creds = tokenFile.id]]

\* lines 57-58: the client secrets are read and the interactive flow runs.
\* The k-th credential the flow issues has the id PersistedId + k.
Flow(c) ==
    /\ Me(c)
    /\ calls[c].pc = "flow"
    /\ UNCHANGED <<service, tokenFile, toolsReply>>
    /\ \E outcome \in {"ok", "no client secrets", "denied"} :
         IF outcome = "no client secrets"
         THEN /\ InitRaise(c, "from_client_secrets_file", trace[c])
              /\ UNCHANGED io
         ELSE /\ io' = [io EXCEPT !.flows = @ + 1]
              /\ IF outcome = "denied"
                 THEN InitRaise(c, "run_local_server",
                                [trace[c] EXCEPT !.flows = @ + 1])
                 ELSE /\ calls' = [calls EXCEPT ![c] =
                                     [@ EXCEPT !.pc = "write",
                                               !.creds = PersistedId + io.flows + 1]]
                      /\ trace' = [trace EXCEPT ![c].flows = @ + 1]
                      /\ UNCHANGED running

\* lines 60-61: open(token_file, 'wb') truncates the file, pickle.dump fills it
WriteSkipped(c) ==
    /\ Me(c)
    /\ calls[c].pc = "write"
    /\ io' = [io EXCEPT !.writes = @ + 1]
    /\ SetPc(c, "build")
    /\ UNCHANGED <<service, tokenFile, toolsReply, running, trace>>

Write(c) ==
    /\ Me(c)
    /\ calls[c].pc = "write"
    /\ io' = [io EXCEPT !.writes = @ + 1]
    /\ UNCHANGED <<service, toolsReply>>
    /\ \E outcome \in {"ok", "open fails", "dump fails"} :
         IF outcome = "ok"
         THEN /\ tokenFile' = Pickled(calls[c].creds, TRUE, FALSE)
              /\ SetPc(c, "build")
              /\ UNCHANGED <<running, trace>>
         ELSE /\ tokenFile' = IF outcome = "dump fails" THEN Corrupt ELSE tokenFile
              /\ InitRaise(c, "open/pickle.dump", trace[c])

\* line 63: build() either returns the service, which is cached, or raises
BuildAssignsFirst(c) ==
    /\ Me(c)
    /\ calls[c].pc = "build"
    /\ io' = [io EXCEPT !.builds = @ + 1]
    /\ service' = [id |-> io.builds + 1, cred |-> calls[c].creds]
    /\ UNCHANGED <<tokenFile, toolsReply>>
    /\ \E ok \in BOOLEAN :
         IF ok
         THEN /\ SetPc(c, "arguments")
              /\ trace' = [trace EXCEPT ![c] = [@ EXCEPT !.initRun = "ok",
                                                         !.handle = io.builds + 1]]
              /\ UNCHANGED running
         ELSE InitRaise(c, "build", trace[c])

Build(c) ==
    /\ Me(c)
    /\ calls[c].pc = "build"
    /\ io' = [io EXCEPT !.builds = @ + 1]
    /\ UNCHANGED <<tokenFile, toolsReply>>
    /\ \E ok \in BOOLEAN :
         IF ok
         THEN /\ service' = [id |-> io.builds + 1, cred |-> calls[c].creds]
              /\ SetPc(c, "arguments")
              /\ trace' = [trace EXCEPT ![c] = [@ EXCEPT !.initRun = "ok",
                                                         !.handle = io.builds + 1]]
              /\ UNCHANGED running
         ELSE /\ service' = service
              /\ InitRaise(c, "build", trace[c])

\* lines 143-158 and 177-183: the arguments test, the choice of the branch
\* and the evaluation of the request's arguments (a missing key raises
\* KeyError inside the try block, which line 214 re-raises).
ArgumentsValidateLate(c) ==
    /\ Me(c)
    /\ calls[c].pc = "arguments"
    /\ UNCHANGED <<service, tokenFile, io, toolsReply>>
    /\ LET d == calls[c].arguments.items
           r == Route(calls[c].name)
           missing == IF r = "create-event"
                      THEN FirstMissing(d, <<"summary", "start_time", "end_time">>)
                      ELSE FirstMissing(d, <<"time_min", "time_max">>)
       IN
       IF NotArguments(calls[c].arguments)
       THEN /\ Finish(c, Failed(Raised("arguments", <<"Missing arguments">>, c)))
            /\ UNCHANGED trace
       ELSE IF r = "unknown"
       THEN /\ Finish(c, Failed(Raised("dispatch", <<"Unknown tool: ", calls[c].name>>, c)))
            /\ UNCHANGED trace
       ELSE IF missing # ""
       THEN /\ Finish(c, Failed(Raised("execution", <<"KeyError", missing>>, c)))
            /\ trace' = [trace EXCEPT ![c].sent =
                            Append(@, [op |-> IF r = "create-event" THEN "insert"
                                              ELSE "list"])]
       ELSE /\ SetPc(c, "execute")
            /\ UNCHANGED <<running, trace>>

Arguments(c) ==
    /\ Me(c)
    /\ calls[c].pc = "arguments"
    /\ UNCHANGED <<service, tokenFile, trace, io, toolsReply>>
    /\ LET d == calls[c].arguments.items
           r == Route(calls[c].name)
           missing == IF r = "create-event"
                      THEN FirstMissing(d, <<"summary", "start_time", "end_time">>)
                      ELSE FirstMissing(d, <<"time_min", "time_max">>)
       IN
       IF NotArguments(calls[c].arguments)
       THEN Finish(c, Failed(Raised("arguments", <<"Missing arguments">>, c)))
       ELSE IF r = "unknown"
       THEN Finish(c, Failed(Raised("dispatch", <<"Unknown tool: ", calls[c].name>>, c)))
       ELSE IF missing # ""
       THEN Finish(c, Failed(Raised("execution", <<"KeyError", missing>>, c)))
       ELSE /\ SetPc(c, "execute")
            /\ UNCHANGED running

\* the requests the call has executed once .execute() has run (lines 164, 187)
ExecutedTwice(sent, request) == Append(Append(sent, request), request)

Executed(sent, request) == Append(sent, request)

\* lines 160-175 and 179-210: .execute() sends the request; the backend
\* answers or fails; the answer is formatted into one text block.  replies
\* are the lists of events the backend may answer a list request with.
ExecuteWith(c, replies) ==
    /\ Me(c)
    /\ calls[c].pc = "execute"
    /\ UNCHANGED <<service, tokenFile, io, toolsReply>>
    /\ LET d == calls[c].arguments.items
           create == Route(calls[c].name) = "create-event"
           request == IF create THEN InsertRequest(d) ELSE ListRequest(d)
       IN
       IF ~ServiceReady(service)
       THEN /\ Finish(c, Failed(Raised("execution", <<"AttributeError">>, c)))
            /\ UNCHANGED trace
       ELSE LET Sent(r, events) ==
                    trace' = [trace EXCEPT ![c] =
                                [@ EXCEPT !.sent = Executed(@, request),
                                          !.reply = r, !.items = events]]
            IN \/ \E f \in BackendFailures :
                    Sent(f, <<>>) /\ Finish(c, OnBackendFailure(c, f))
               \/ /\ create
                  /\ Sent("ok", <<>>)
                  /\ Finish(c, Returned(CreateResult(request.body @@ ("id" :> "evt-1"))))
               \/ /\ ~create
                  /\ \E events \in replies :
                        /\ Sent("ok", events)
                        /\ Finish(c, Returned(SearchResult(events)))

Execute(c) == ExecuteWith(c, ListReplies)

\* handle_list_tools, lines 71-129; it runs when the event loop is free
ListTools ==
    /\ running = 0
    /\ toolsReply' = Tools
    /\ UNCHANGED <<service, tokenFile, running, calls, trace, io>>

\* Time passes the expiry of the credential that token.pickle held at
\* start-up.  A credential issued by the flow during this run of the process
\* outlives the calls of the run.
Expire ==
    /\ tokenFile.kind = "creds"
    /\ tokenFile.id = PersistedId
    /\ ~tokenFile.expired
    /\ tokenFile' = [tokenFile EXCEPT !.expired = TRUE]
    /\ UNCHANGED <<service, running, calls, trace, io, toolsReply>>

Handle ==
    \/ \E c \in Calls : Start(c)
    \/ \E c \in Calls : Initialize(c)
    \/ \E c \in Calls : Flow(c)
    \/ \E c \in Calls : Write(c)
    \/ \E c \in Calls : Build(c)
    \/ \E c \in Calls : Arguments(c)
    \/ \E c \in Calls : Execute(c)

\* tool calls only
Next ==
    \/ \E c \in Calls, r \in Requests : Submit(c, r.name, r.arguments)
    \/ Handle
    \/ Expire

Spec == Init /\ [][Next]_vars

\* tool calls and tools/list requests
NextTools ==
    \/ \E c \in Calls, r \in ToolsRequests : Submit(c, r.name, r.arguments)
    \/ Handle
    \/ Expire
    \/ ListTools

SpecTools == Init /\ [][NextTools]_vars

\* The event loop runs a ready task whenever it is free, and every blocking
\* operation of a handler (the load, the flow, the write, build, .execute())
\* eventually returns or raises: the next step of the handlers is taken.
NextLive ==
    \/ \E c \in Calls, r \in ToolsRequests : Submit(c, r.name, r.arguments)
    \/ Handle
    \/ Expire

SpecLive == Init /\ [][NextLive]_vars /\ WF_vars(Handle)

\* one tool call on its own, with every shape of arguments and of reply
NextSingle ==
    \/ \E r \in SingleRequests : Submit(1, r.name, r.arguments)
    \/ Start(1)
    \/ Initialize(1)
    \/ Flow(1)
    \/ Write(1)
    \/ Build(1)
    \/ Arguments(1)
    \/ ExecuteWith(1, LongReplies)
    \/ Expire

SpecSingle == Init /\ [][NextSingle]_vars

TypeOK ==
    /\ running \in 0..NumCalls
    /\ service.id \in 0..NumCalls
    /\ \A c \in Calls : calls[c].pc \in {"idle", "queued", "initialize", "flow", "write",
                                         "build", "arguments", "execute", "done"}

\* ================================================================ claims
\* what token.pickle holds, apart from the passing of time
StoreContent(f) == <<f.kind, f.id, f.refresh>>

Finished(c) == calls[c].pc = "done"

EmptyArguments(c) == calls[c].arguments.none \/ DOMAIN calls[c].arguments.items = {}

\* C1: when all the calls were in flight at cold start (no cached service,
\* no valid credential in token.pickle, no call finished yet) and the service
\* has been obtained, the authorization flow has run exactly once, the
\* credential file has been written exactly once and all calls have proceeded
\* with the same service handle.
C1_SingleFlightColdStart ==
    (/\ \A c \in Calls : trace[c].coldQueued /\ Finished(c)
     /\ service # NoService)
    => /\ io.flows = 1
       /\ io.writes = 1
       /\ \A c \in Calls : trace[c].handle = service.id

\* C2: while a call whose arguments are None or empty is being handled, no
\* credential operation (load, flow, write, build) is executed and the shared
\* state stays as it is, and the call ends with the missing-arguments error
\* without a backend request.
C2_MissingArgumentsBeforeIO ==
    [][\A c \in Calls :
         (running = c /\ EmptyArguments(c))
         => /\ io' = io
            /\ service' = service
            /\ StoreContent(tokenFile') = StoreContent(tokenFile)
            /\ calls'[c].pc = "done"
               => /\ calls'[c].result =
                        [content |-> <<>>,
                         error |-> [origin |-> "arguments",
                                    cause |-> <<"Missing arguments">>, by |-> c]]
                  /\ trace'[c].sent = <<>>]_vars

UnknownName(c) == calls[c].name \notin {"create-event", "search-events"}

UnknownToolError(c) ==
    [origin |-> "dispatch", cause |-> <<"Unknown tool: ", calls[c].name>>, by |-> c]

\* C3 as stated: a finished call with non-empty arguments and an unknown name
\* has failed with the unknown-tool error carrying the name, and has sent
\* nothing to the backend.
C3_UnknownToolError ==
    \A c \in Calls :
        (Finished(c) /\ ~EmptyArguments(c) /\ UnknownName(c))
        => /\ calls[c].result = [content |-> <<>>, error |-> UnknownToolError(c)]
           /\ trace[c].sent = <<>>

\* C3 amended: such a call sends nothing to the backend and returns no
\* content; it fails with the unknown-tool error carrying the name unless
\* its own initialization failed, in which case it fails with that error.
C3_UnknownToolAfterInit ==
    \A c \in Calls :
        (Finished(c) /\ ~EmptyArguments(c) /\ UnknownName(c))
        => /\ trace[c].sent = <<>>
           /\ calls[c].result.content = <<>>
           /\ IF trace[c].initRun = "failed"
              THEN calls[c].result.error.origin = "initialize"
              ELSE calls[c].result.error = UnknownToolError(c)

C3_Witness ==
    \E c \in Calls :
        /\ Finished(c) /\ ~EmptyArguments(c) /\ UnknownName(c)
        /\ calls[c].result.error = UnknownToolError(c)

\* C4: once the service is cached, no step loads or writes the credential
\* file, runs the flow or builds a service, the cached service and the
\* stored credential stay as they are, and a call that takes up a handle
\* takes the cached one.
C4_NoIOAfterInitialization ==
    [][service # NoService
       => /\ service' = service
          /\ io' = io
          /\ StoreContent(tokenFile') = StoreContent(tokenFile)
          /\ \A c \in Calls :
                /\ trace'[c].attempts = trace[c].attempts
                /\ trace'[c].handle \in {trace[c].handle, service.id}]_vars

C4_Witness ==
    \E c \in Calls :
        /\ Finished(c)
        /\ trace[c].attempts = 0
        /\ trace[c].handle = service.id
        /\ service # NoService
        /\ calls[c].result.content # <<>>

InitFailsNow(c) == trace'[c].initRun = "failed" /\ trace[c].initRun # "failed"

\* C5: the step in which an initialization fails leaves the service unset,
\* and a call that is started while the service is unset runs initialize.
C5_FailedInitLeavesUnset ==
    [][\A c \in Calls :
         /\ InitFailsNow(c) => service' = NoService
         /\ (calls[c].pc = "queued" /\ calls'[c].pc # "queued" /\ service = NoService)
            => calls'[c].pc = "initialize"
         /\ (calls[c].pc = "initialize" /\ calls'[c].pc # "initialize"
             /\ service = NoService)
            => trace'[c].attempts = trace[c].attempts + 1]_vars

\* a call failed to initialize, a later call initialized and got its answer
C5_Witness ==
    \E c, d \in Calls :
        /\ c < d
        /\ trace[c].initRun = "failed"
        /\ trace[d].initRun = "ok"
        /\ service.id = trace[d].handle
        /\ calls[d].result.content # <<>>

\* C6: a call that was waiting in the queue when the first initialization
\* attempt of the process failed fails with that same error, without an
\* initialization attempt or an authorization flow of its own.
C6_WaitersShareFailure ==
    \A d \in Calls :
        LET w == trace[d].waitedFor IN
        (Finished(d) /\ w # 0 /\ \A e \in 1..(w - 1) : trace[e].attempts = 0)
        => /\ calls[d].result.error = calls[w].result.error
           /\ trace[d].attempts = 0
           /\ trace[d].flows = 0

\* C7: initialize goes on to the authorization flow only if token.pickle is
\* absent or holds an expired credential without a refresh token.
C7_FlowOnlyWhenUnrefreshable ==
    [][\A c \in Calls :
         (calls[c].pc = "initialize" /\ calls'[c].pc = "flow")
         => \/ tokenFile.kind = "absent"
            \/ tokenFile.kind = "creds" /\ tokenFile.expired /\ ~tokenFile.refresh]_vars

\* C8: a call whose initialization failed is finished, its error is the one
\* initialize raised in this call, it has sent nothing to the backend and has
\* run initialize once.
C8_InitFailureEndsCall ==
    \A c \in Calls :
        trace[c].initRun = "failed"
        => /\ Finished(c)
           /\ calls[c].result.error.origin = "initialize"
           /\ calls[c].result.error.by = c
           /\ calls[c].result.content = <<>>
           /\ trace[c].sent = <<>>
           /\ trace[c].attempts = 1

C8_Witness ==
    \E c \in Calls :
        /\ trace[c].initRun = "failed"
        /\ ~EmptyArguments(c)
        /\ calls[c].name = "create-event"

\* C9: a call whose backend request failed ends with the error that carries
\* that failure and with no content block; a finished call has either
\* content blocks or an error, never both and never neither; an unfinished
\* call has neither.
C9_BackendFailureSurfaces ==
    \A c \in Calls :
        /\ trace[c].reply \notin {"", "ok"}
           => /\ Finished(c)
              /\ calls[c].result.content = <<>>
              /\ calls[c].result.error =
                    [origin |-> "execution", cause |-> <<trace[c].reply>>, by |-> c]
        /\ Finished(c)
           => (calls[c].result.content # <<>>) # (calls[c].result.error.origin # "none")
        /\ ~Finished(c)
           => calls[c].result = [content |-> <<>>,
                                 error |-> [origin |-> "none", cause |-> <<>>, by |-> 0]]

C9_Witness ==
    \E c, d \in Calls :
        /\ trace[c].reply \notin {"", "ok"} /\ calls[c].name = "create-event"
        /\ trace[d].reply \notin {"", "ok"} /\ calls[d].name = "search-events"

\* C10: whenever handle_list_tools answers, the answer is the list of
\* create-event (required summary, start_time, end_time) followed by
\* search-events (required time_min, time_max), and nothing else changes.
C10_ListToolsFixed ==
    [][toolsReply' # toolsReply
       => /\ Len(toolsReply') = 2
          /\ toolsReply'[1] = [name |-> "create-event",
                               required |-> <<"summary", "start_time", "end_time">>]
          /\ toolsReply'[2] = [name |-> "search-events",
                               required |-> <<"time_min", "time_max">>]
          /\ UNCHANGED <<service, tokenFile, running, calls, trace, io>>]_vars

\* the list has been returned in a run with a failed and a successful
\* initialization
C10_Witness ==
    /\ toolsReply # <<>>
    /\ service # NoService
    /\ \E c \in Calls : trace[c].initRun = "failed"

\* C11: the body of an insert request has no attendees field when the
\* arguments have no attendees key or an empty list of attendees; otherwise
\* its attendees are one record per email, as many as given and in the order
\* given.
C11_AttendeesPayload ==
    \A c \in Calls :
        (trace[c].sent # <<>> /\ trace[c].sent[1].op = "insert")
        => LET d == calls[c].arguments.items
               body == trace[c].sent[1].body
           IN IF "attendees" \notin DOMAIN d
              THEN "attendees" \notin DOMAIN body
              ELSE IF Len(d["attendees"]) = 0
              THEN "attendees" \notin DOMAIN body
              ELSE /\ "attendees" \in DOMAIN body
                   /\ Len(body["attendees"]) = Len(d["attendees"])
                   /\ \A i \in 1..Len(d["attendees"]) :
                         body["attendees"][i] = [email |-> d["attendees"][i]]

\* inserts have been sent for two attendees in both orders
C11_Witness ==
    /\ trace[1].sent # <<>>
    /\ trace[1].sent[1].op = "insert"
    /\ "attendees" \in DOMAIN calls[1].arguments.items
    /\ calls[1].arguments.items["attendees"] = <<"b@y.com", "a@x.com">>

\* C12: a search-events call that the backend answered ends with exactly
\* one text block: "No events found" for zero events; for k >= 1 events the
\* header "Found k events:" followed by exactly k entries in the order of
\* the reply, each with the title of its event or "Untitled" when the event
\* has none.
C12_SearchBlocks ==
    \A c \in Calls :
        (trace[c].reply = "ok" /\ trace[c].sent[1].op = "list")
        => LET ev == trace[c].items
               k == Len(ev)
               blocks == calls[c].result.content
               text == blocks[1].text
           IN /\ Finished(c)
              /\ calls[c].result.error.origin = "none"
              /\ Len(blocks) = 1
              /\ blocks[1].type = "text"
              /\ IF k = 0
                 THEN text = <<"No events found">>
                 ELSE /\ Len(text) = 3 + 6 * k + (k - 1)
                      /\ text[1] = "Found "
                      /\ text[2] = <<"1", "2", "3", "4", "5", "6", "7", "8", "9">>[k]
                      /\ text[3] = " events:\n\n"
                      /\ Cardinality({j \in 1..Len(text) : text[j] = "- "}) = k
                      /\ \A i \in 1..k :
                            /\ text[7 * i - 3] = "- "
                            /\ text[7 * i - 2] =
                                  IF "summary" \in DOMAIN ev[i] THEN ev[i]["summary"]
                                  ELSE "Untitled"

\* the backend answered with an untitled event followed by a titled one
C12_Witness ==
    /\ trace[1].reply = "ok"
    /\ trace[1].sent[1].op = "list"
    /\ Len(trace[1].items) = 2
    /\ "summary" \notin DOMAIN trace[1].items[1]
    /\ "summary" \in DOMAIN trace[1].items[2]

\* the backend answered a search with no event
C12_WitnessEmpty ==
    /\ trace[1].reply = "ok"
    /\ trace[1].sent[1].op = "list"
    /\ trace[1].items = <<>>

\* C13: at most one initialization has built and cached a service; every
\* handle a call has taken up is the cached service; a call has sent a
\* request to the backend only with the service cached.
C13_OneHandle ==
    /\ Cardinality({c \in Calls : trace[c].initRun = "ok"}) <= 1
    /\ \A c \in Calls :
          /\ trace[c].handle # 0 => trace[c].handle = service.id
          /\ trace[c].sent # <<>> => service.id # 0 /\ trace[c].handle = service.id

\* the backend has answered a call although an earlier initialization failed
\* at build
C13_Witness ==
    \E c, d \in Calls :
        /\ trace[d].initRun = "failed"
        /\ calls[d].result.error.cause = <<"build">>
        /\ trace[c].sent # <<>>

\* C14: the step that caches a service built from a credential of the
\* authorization flow finds that credential already in token.pickle and
\* leaves the file alone; and in every state where such a service is cached,
\* token.pickle holds that credential.
C14_PersistedBeforeCached ==
    /\ [][(service = NoService /\ service' # NoService
                               /\ service'.cred > PersistedId)
          => /\ tokenFile.kind = "creds"
             /\ tokenFile.id = service'.cred
             /\ tokenFile' = tokenFile]_vars
    /\ [](service.cred > PersistedId
            => tokenFile.kind = "creds" /\ tokenFile.id = service.cred)

\* a service built from a credential of the flow is cached, and the call
\* that built it has finished
C14_Witness ==
    \E c \in Calls :
        /\ service.cred > PersistedId
        /\ trace[c].initRun = "ok"
        /\ trace[c].flows = 1
        /\ Finished(c)

\* C15: with the service cached, while a call is in its backend request
\* (.execute() at lines 164 and 187) a call that has been delivered and not
\* yet started can start: its handler does not have to wait for the reply.
C15_BlockedCallDoesNotStall ==
    \A c, d \in Calls :
        ( /\ service # NoService
          /\ calls[c].pc = "execute"
          /\ calls[d].pc = "queued" )
        => ENABLED (/\ calls[d].pc = "queued"
                    /\ calls' = [calls EXCEPT ![d].pc = "arguments"]
                    /\ Handle)

\* C16: a call has executed at most one backend request; when the backend
\* failed that request, the call has ended with that failure as its error
\* after exactly one request.
C16_AtMostOneRequest ==
    \A c \in Calls :
        /\ Len(trace[c].sent) <= 1
        /\ trace[c].reply \in BackendFailures
              => /\ Len(trace[c].sent) = 1
                 /\ calls[c].pc = "done"
                 /\ calls[c].result.content = <<>>
                 /\ calls[c].result.error.cause = <<trace[c].reply>>

\* the backend refused the list request of a search-events call
C16_Witness ==
    \E c \in Calls :
        /\ trace[c].reply = "HttpError 403"
        /\ Len(trace[c].sent) = 1
        /\ trace[c].sent[1].op = "list"
        /\ calls[c].pc = "done"

\* C17: every delivered call eventually ends, with content blocks or with
\* an error, whatever the other calls do.
C17_EveryCallCompletes ==
    \A c \in Calls :
        (calls[c].pc = "queued")
            ~> ( /\ calls[c].pc = "done"
                 /\ \/ calls[c].result.content # <<>>
                    \/ calls[c].result.error.origin # "none" )

\* all the calls have ended, the last of them delivered before an
\* initialization of another call failed
C17_Witness ==
    /\ \A c \in Calls : calls[c].pc = "done"
    /\ trace[NumCalls].waitedFor # 0
    /\ trace[NumCalls].waitedFor # NumCalls

\* C18: once self.service is set, no step clears it or replaces it.
C18_HandleNeverReplaced ==
    [][service # NoService => service' = service]_vars

\* all the calls have ended with the service cached, the backend has refused
\* a request with an authorization failure and the credential the service
\* was built from has expired
C18_Witness ==
    /\ service # NoService
    /\ tokenFile.kind = "creds" /\ tokenFile.id = service.cred /\ tokenFile.expired
    /\ \A c \in Calls : calls[c].pc = "done"
    /\ \E c \in Calls : trace[c].reply = "HttpError 403"
    /\ trace[NumCalls].initRun = "no"

\* the keys each branch of handle_call_tool subscripts
RequiredKeys(n) ==
    IF n = "create-event" THEN {"summary", "start_time", "end_time"}
    ELSE IF n = "search-events" THEN {"time_min", "time_max"}
    ELSE {}

\* C19: a create-event call without summary, start_time or end_time, or a
\* search-events call without time_min or time_max, sends no request to the
\* backend, and when it has ended it has ended with an error and no content.
C19_MissingKeyNoRequest ==
    \A c \in Calls :
        ( /\ calls[c].pc \notin {"idle"}
          /\ \E k \in RequiredKeys(calls[c].name) :
                 k \notin DOMAIN calls[c].arguments.items )
        => /\ trace[c].sent = <<>>
           /\ trace[c].reply = ""
           /\ calls[c].pc # "execute"
           /\ calls[c].pc = "done"
                 => /\ calls[c].result.content = <<>>
                    /\ calls[c].result.error.origin # "none"

\* a search-events call without time_max has ended with KeyError after it
\* had obtained the service
C19_Witness ==
    /\ calls[1].pc = "done"
    /\ calls[1].name = "search-events"
    /\ DOMAIN calls[1].arguments.items = {"time_min", "query"}
    /\ trace[1].handle # 0
    /\ calls[1].result.error.cause = <<"KeyError", "time_max">>

====
